---- MODULE Spec2Model ----
(***************************************************************************)
(* GSM utilities of the MKR1400 sensor node (GSM_Utils.h / GSM_Utils.cpp): *)
(* the fixed-capacity SensorBuffer with its two serializers, the           *)
(* GSMConnection connect / send state machine driven by millis(), and the  *)
(* helpers sendToThingSpeak, waitForResponse and sendATCommand.            *)
(***************************************************************************)
EXTENDS Integers, Sequences, FiniteSets, TLC

VARIABLES
  samples,                \* SensorBuffer::samples[MAX_SAMPLES]
  sampleCount,            \* SensorBuffer::sampleCount
  currentIndex,           \* SensorBuffer::currentIndex
  bufCall,                \* the last SensorBuffer call: arguments, return value, output buffer
  isConnected,            \* GSMConnection::isConnected
  lastConnectionAttempt,  \* GSMConnection::lastConnectionAttempt
  connectionTimeout,      \* GSMConnection::connectionTimeout
  now,                    \* the reading of millis()
  elapsed,                \* history: time since the GSMConnection was constructed
  clientConnected,        \* GSMSSLClient client: client.connected()
  clientAvailable,        \* GSMSSLClient client: client.available()
  connCall,               \* the last GSMConnection call: return value and transport calls made
  lastAttachAt,           \* history: elapsed time at the latest gsmAccess.begin(), -1 if none
  attachGap,              \* history: time between the latest two gsmAccess.begin() (capped), -1 if fewer
  sinceConnect,           \* history: time since the latest connect() call (capped), -1 if none
  upload,                 \* sendToThingSpeak: its position, responseDelay and return value
  wait,                   \* waitForResponse / sendATCommand: position, delay, response, return value
  serial,                 \* SoftwareSerial: bytes to read (rx) and commands written (tx)
  delay                   \* a NonBlockingDelay: startTime, duration and the call that just returned

bufVars  == <<samples, sampleCount, currentIndex, bufCall>>
connVars == <<isConnected, lastConnectionAttempt, connectionTimeout, now, elapsed,
              clientConnected, clientAvailable, connCall,
              lastAttachAt, attachGap, sinceConnect>>
helperVars == <<upload, wait, serial, delay>>
vars     == <<samples, sampleCount, currentIndex, bufCall,
              isConnected, lastConnectionAttempt, connectionTimeout, now, elapsed,
              clientConnected, clientAvailable, connCall,
              lastAttachAt, attachGap, sinceConnect,
              upload, wait, serial, delay>>

----------------------------------------------------------------------------
(* Program constants *)

ChunkRowBytes == 200        \* char chunks[][200]
ChunkFillLimit == 190       \* pos < 190
StringReserve == 10         \* pos < maxLength - 10
MinRetryInterval == 5000    \* currentTime - lastConnectionAttempt < 5000
CONNECTION_TIMEOUT == 30000 \* GSM_Utils.h:41
ResponseWait == 5000        \* NonBlockingDelay responseDelay(5000)
COMMAND_TIMEOUT == 5000     \* GSM_Utils.h:42

(* Bounds of the model *)

\* static const int MAX_SAMPLES = 500 (GSM_Utils.h:104): the model's buffer has
\* fewer slots, still enough to fill a 200-byte chunk row from one chunk
MAX_SAMPLES == 20
MaxVaried == 2              \* readings after the first MaxVaried repeat the previous one
MaxChunksArg == 3           \* maxChunks ranges over 1..MaxChunksArg
MaxElapsed == 36000         \* the clock is advanced up to this time after construction
MaxWaitClock == 8000        \* the clock is advanced up to this time while waitForResponse is studied
MaxBytes == 2               \* bytes the module sends that are unread or in one response
MaxDelaySteps == 5          \* clock advances while the NonBlockingDelay is studied
MaxCommands == 2            \* commands written to the serial line
MaxAvailable == 2           \* at most this many unread response bytes
\* unsigned long wraps at 2^32 on the SAMD21 build; TLC's integers are 32-bit signed,
\* so the model's clock wraps at 2^30 (far above every interval of the program)
ClockModulus == 1073741824

SampleValues == {7, 2147483647, -2147483647}   \* a short reading, INT_MAX, -INT_MAX
StringLengths == {-1, 0, 1, 11, 12, 24}        \* maxLength arguments of getDataAsString
\* maxChunks arguments of getDataAsChunks
ChunkArgs == {-1, 0} \cup (1..MaxChunksArg)
TickSteps == {1000, 2000, 5000}                \* clock advances between calls
\* millis() when a NonBlockingDelay is studied: far from and close to the wrap
WrapStarts == {0, ClockModulus - 3000}
ClockStarts == {0}                             \* millis() when the GSMConnection is constructed
Methods == {"GET", "POST"}                     \* method arguments of sendData
Urls == {"/update?api_key=POWWNFLAIARHZL10&field1=7"}   \* url arguments of sendData

THINGSPEAK_SERVER == "api.thingspeak.com"

Min(a, b) == IF a < b THEN a ELSE b

----------------------------------------------------------------------------
(* SensorBuffer *)

NoBufCall == [op |-> "none"]

\* memset(samples, 0, sizeof(samples))
ZeroSamples == [i \in 0..(MAX_SAMPLES - 1) |-> 0]

IsFull == currentIndex >= MAX_SAMPLES

GetSampleCount == sampleCount

HasRoomOffByOne == currentIndex <= MAX_SAMPLES

\* if (currentIndex < MAX_SAMPLES)
HasRoom == currentIndex < MAX_SAMPLES

\* the readings the model feeds: free for the first MaxVaried slots, then repeating
Admitted(value) ==
  IF currentIndex < MaxVaried \/ IsFull THEN TRUE ELSE value = samples[currentIndex - 1]

\* an addSample that writes over the sample stored last
WriteSlotPrevious == IF currentIndex > 0 THEN currentIndex - 1 ELSE currentIndex

\* samples[currentIndex] = value;
WriteSlot == currentIndex

AddSample(value) ==
  /\ Admitted(value)
  /\ IF HasRoom
       THEN /\ samples' = [samples EXCEPT ![WriteSlot] = value]
            /\ currentIndex' = currentIndex + 1
            /\ sampleCount' = currentIndex + 1
       ELSE UNCHANGED <<samples, currentIndex, sampleCount>>
  /\ bufCall' = [op |-> "addSample", value |-> value, wasFull |-> IsFull,
                 countBefore |-> sampleCount, result |-> "void",
                 clearedFrom |-> IF bufCall.op = "clear" THEN bufCall.countBefore
                                 ELSE -1]
  /\ UNCHANGED connVars
  /\ UNCHANGED helperVars

\* a clear() without the memset
ClearKeepsSamples ==
  /\ currentIndex' = 0
  /\ sampleCount' = 0
  /\ samples' = samples
  /\ bufCall' = [op |-> "clear", countBefore |-> sampleCount]
  /\ UNCHANGED connVars
  /\ UNCHANGED helperVars

\* countBefore: the count clear() found
Clear ==
  /\ currentIndex' = 0
  /\ sampleCount' = 0
  /\ samples' = ZeroSamples
  /\ bufCall' = [op |-> "clear", countBefore |-> sampleCount]
  /\ UNCHANGED connVars
  /\ UNCHANGED helperVars

InitBuffer ==
  /\ samples = ZeroSamples
  /\ sampleCount = 0
  /\ currentIndex = 0
  /\ bufCall = NoBufCall

----------------------------------------------------------------------------
(* snprintf(dst + pos, size, "%d ", value) *)

DigitChars == <<"0", "1", "2", "3", "4", "5", "6", "7", "8", "9">>

RECURSIVE DecDigits(_)
DecDigits(n) ==
  IF n < 10 THEN <<DigitChars[n + 1]>>
  ELSE DecDigits(n \div 10) \o <<DigitChars[(n % 10) + 1]>>

\* the characters "%d " produces for value
FormatSample(value) ==
  (IF value < 0 THEN <<"-">> \o DecDigits(-value) ELSE DecDigits(value)) \o <<" ">>

\* what snprintf stores in a destination of `size` bytes: at most size - 1
\* characters (then its own terminator); it returns Len(text) whatever the size
Stored(text, size) ==
  IF size <= 0 THEN <<>> ELSE SubSeq(text, 1, Min(Len(text), size - 1))

\* for (i = 0; i < sampleCount && pos < maxLength - 10; i++)
StringLoopRuns(i, pos, maxLength) == i < sampleCount /\ pos < maxLength - StringReserve

RECURSIVE StringLoop(_, _, _, _)
StringLoop(i, pos, text, maxLength) ==
  IF StringLoopRuns(i, pos, maxLength)
    THEN LET f == FormatSample(samples[i])
             written == Len(f)
         IN StringLoop(i + 1,
                       IF written > 0 THEN pos + written ELSE pos,
                       text \o Stored(f, maxLength - pos),
                       maxLength)
    ELSE [pos |-> pos, text |-> text]

\* text: the characters stored from index 0 (what a reader of the C string sees);
\* term: the index buffer[pos] = '\0' writes to, which may lie outside the
\* destination of maxLength bytes: the write is then undefined, its index is
\* recorded and the call may or may not return
GetDataAsString(maxLength) ==
  /\ LET r == StringLoop(0, 0, <<>>, maxLength)
         undef == IF r.pos >= maxLength THEN "index out of range" ELSE "none"
     IN \E returned \in BOOLEAN :
          /\ undef = "none" => returned
          /\ bufCall' = [op |-> "getDataAsString", maxLength |-> maxLength,
                         text |-> r.text, term |-> r.pos,
                         undefined |-> undef, returned |-> returned]
  /\ UNCHANGED <<samples, sampleCount, currentIndex>>
  /\ UNCHANGED connVars
  /\ UNCHANGED helperVars

\* a / b of C for a >= 0 and b # 0: the quotient truncated towards zero
CDiv(a, b) == IF b > 0 THEN a \div b ELSE 0 - (a \div (0 - b))

\* int samplesPerChunk = sampleCount / maxChunks; if (samplesPerChunk == 0) samplesPerChunk = 1;
\* (maxChunks # 0)
SamplesPerChunk(maxChunks) ==
  LET q == CDiv(sampleCount, maxChunks) IN IF q = 0 THEN 1 ELSE q

StartSample(chunk, maxChunks) == chunk * SamplesPerChunk(maxChunks)

EndSample(chunk, maxChunks) ==
  Min(StartSample(chunk, maxChunks) + SamplesPerChunk(maxChunks), sampleCount)

\* for (i = startSample; i < endSample && pos < 190; i++)
ChunkLoopRuns(i, endSample, pos) == i < endSample /\ pos < ChunkFillLimit

RECURSIVE ChunkLoop(_, _, _, _)
ChunkLoop(i, endSample, pos, text) ==
  IF ChunkLoopRuns(i, endSample, pos)
    THEN LET f == FormatSample(samples[i])
             written == Len(f)
         IN ChunkLoop(i + 1, endSample,
                      IF written > 0 THEN pos + written ELSE pos,
                      text \o Stored(f, ChunkRowBytes - pos))
    ELSE [pos |-> pos, text |-> text]

\* one row chunks[chunk]: emitted iff pos > 0, and then terminated at index pos
ChunkRow(chunk, maxChunks) ==
  LET r == ChunkLoop(StartSample(chunk, maxChunks), EndSample(chunk, maxChunks), 0, <<>>)
  IN [text |-> r.text, pos |-> r.pos, emitted |-> r.pos > 0]

\* chunkCount counts the emitted rows (chunkCount < maxChunks never stops the loop,
\* as chunkCount <= chunk).  sampleCount / maxChunks with maxChunks = 0 is
\* undefined: the call may trap, or go on with any quotient, and then the loop
\* (chunk < 0) runs no turn.  A terminator written at index 200 or more is
\* undefined too.
GetDataAsChunks(maxChunks) ==
  /\ LET rows == IF maxChunks = 0 THEN <<>>
                 ELSE [chunk \in 0..(maxChunks - 1) |-> ChunkRow(chunk, maxChunks)]
         undef == IF maxChunks = 0 THEN "division by zero"
                  ELSE IF \E c \in 0..(maxChunks - 1) :
                            rows[c].emitted /\ rows[c].pos >= ChunkRowBytes
                    THEN "index out of range"
                  ELSE "none"
     IN \E returned \in BOOLEAN :
          /\ undef = "none" => returned
          /\ bufCall' = [op |-> "getDataAsChunks", maxChunks |-> maxChunks,
                         chunks |-> rows,
                         chunkCount |->
                           Cardinality({c \in 0..(maxChunks - 1) : rows[c].emitted}),
                         undefined |-> undef, returned |-> returned]
  /\ UNCHANGED <<samples, sampleCount, currentIndex>>
  /\ UNCHANGED connVars
  /\ UNCHANGED helperVars

IsFullCall ==
  /\ bufCall' = [op |-> "isFull", result |-> IsFull]
  /\ UNCHANGED <<samples, sampleCount, currentIndex>>
  /\ UNCHANGED connVars
  /\ UNCHANGED helperVars

GetSampleCountCall ==
  /\ bufCall' = [op |-> "getSampleCount", result |-> GetSampleCount]
  /\ UNCHANGED <<samples, sampleCount, currentIndex>>
  /\ UNCHANGED connVars
  /\ UNCHANGED helperVars

NextBuffer ==
  \/ \E value \in SampleValues : AddSample(value)
  \/ Clear
  \/ IsFullCall
  \/ GetSampleCountCall
  \/ \E maxLength \in StringLengths : GetDataAsString(maxLength)
  \/ \E maxChunks \in ChunkArgs : GetDataAsChunks(maxChunks)

----------------------------------------------------------------------------
(* GSMConnection *)

\* unsigned long arithmetic
Sub32(a, b) == (a - b) % ClockModulus
Add32(a, b) == (a + b) % ClockModulus

IsReadyNoDeadline == isConnected

\* return isConnected && (millis() < connectionTimeout);
IsReady == isConnected /\ now < connectionTimeout

RateLimitedOff(currentTime) == FALSE

RateLimitedShort(currentTime) ==
  Sub32(currentTime, lastConnectionAttempt) < MinRetryInterval - 1000

\* if (currentTime - lastConnectionAttempt < 5000) return false;
RateLimited(currentTime) == Sub32(currentTime, lastConnectionAttempt) < MinRetryInterval

\* a connect() that stamps the attempt before it looks at the rate limit
ConnectOutcomeStampFirst(gsmReady, gprsReady) ==
  IF isConnected
    THEN [result |-> TRUE, isConnected |-> isConnected,
          lastConnectionAttempt |-> lastConnectionAttempt,
          connectionTimeout |-> connectionTimeout,
          attached |-> FALSE, bearer |-> FALSE]
  ELSE IF RateLimited(now)
    THEN [result |-> FALSE, isConnected |-> isConnected,
          lastConnectionAttempt |-> now,
          connectionTimeout |-> Add32(now, CONNECTION_TIMEOUT),
          attached |-> FALSE, bearer |-> FALSE]
  ELSE [result |-> gsmReady /\ gprsReady, isConnected |-> gsmReady /\ gprsReady,
        lastConnectionAttempt |-> now,
        connectionTimeout |-> Add32(now, CONNECTION_TIMEOUT),
        attached |-> TRUE, bearer |-> gsmReady]

\* a connect() that takes the network attach alone for success
ConnectOutcomeIgnoresBearer(gsmReady, gprsReady) ==
  IF isConnected
    THEN [result |-> TRUE, isConnected |-> isConnected,
          lastConnectionAttempt |-> lastConnectionAttempt,
          connectionTimeout |-> connectionTimeout,
          attached |-> FALSE, bearer |-> FALSE]
  ELSE IF RateLimited(now)
    THEN [result |-> FALSE, isConnected |-> isConnected,
          lastConnectionAttempt |-> lastConnectionAttempt,
          connectionTimeout |-> connectionTimeout,
          attached |-> FALSE, bearer |-> FALSE]
  ELSE [result |-> gsmReady, isConnected |-> gsmReady,
        lastConnectionAttempt |-> now,
        connectionTimeout |-> Add32(now, CONNECTION_TIMEOUT),
        attached |-> TRUE, bearer |-> gsmReady]

\* connect(): its return value, the fields it leaves and the attach calls it makes,
\* given what gsmAccess.begin() and gprs.attachGPRS() would answer
ConnectOutcome(gsmReady, gprsReady) ==
  IF isConnected
    THEN [result |-> TRUE, isConnected |-> isConnected,
          lastConnectionAttempt |-> lastConnectionAttempt,
          connectionTimeout |-> connectionTimeout,
          attached |-> FALSE, bearer |-> FALSE]
  ELSE IF RateLimited(now)
    THEN [result |-> FALSE, isConnected |-> isConnected,
          lastConnectionAttempt |-> lastConnectionAttempt,
          connectionTimeout |-> connectionTimeout,
          attached |-> FALSE, bearer |-> FALSE]
  ELSE [result |-> gsmReady /\ gprsReady, isConnected |-> gsmReady /\ gprsReady,
        lastConnectionAttempt |-> now,
        connectionTimeout |-> Add32(now, CONNECTION_TIMEOUT),
        attached |-> TRUE, bearer |-> gsmReady]

\* what the attach calls answered in a call with outcome c ("none": not called)
Answer(called, ready) == IF ~called THEN "none" ELSE IF ready THEN "ready" ELSE "failed"

RequestWrittenNoHost(url, method) ==
  <<method, " ", url, " HTTP/1.1", "\n",
    "Connection: close", "\n",
    "\n">>

\* the print / println calls of sendData, one element per argument, "\n" for the
\* line end println adds
RequestWritten(url, method) ==
  <<method, " ", url, " HTTP/1.1", "\n",
    "Host: ", THINGSPEAK_SERVER, "\n",
    "Connection: close", "\n",
    "\n">>

\* the history of attach attempts and connect() calls, after a call with outcome c
History(c) ==
  /\ lastAttachAt' = IF c.attached THEN elapsed ELSE lastAttachAt
  /\ attachGap' = IF c.attached /\ lastAttachAt # -1
                    THEN Min(elapsed - lastAttachAt, MinRetryInterval)
                    ELSE attachGap
  /\ sinceConnect' = 0

NoConnCall == [op |-> "none"]

\* time since the latest attach attempt, -1 if there was none
SinceAttach == IF lastAttachAt = -1 THEN -1 ELSE elapsed - lastAttachAt

\* since: time since the previous connect() call, -1 if there was none
Connect ==
  \E gsmReady, gprsReady \in BOOLEAN :
    LET c == ConnectOutcome(gsmReady, gprsReady) IN
      /\ isConnected' = c.isConnected
      /\ lastConnectionAttempt' = c.lastConnectionAttempt
      /\ connectionTimeout' = c.connectionTimeout
      /\ connCall' = [op |-> "connect", result |-> c.result,
                      connectCalled |-> TRUE, connectResult |-> c.result,
                      attached |-> c.attached, bearer |-> c.bearer,
                      gsm |-> Answer(c.attached, gsmReady),
                      gprs |-> Answer(c.bearer, gprsReady),
                      since |-> sinceConnect, sinceAttach |-> SinceAttach,
                      wasConnected |-> isConnected,
                      wasReady |-> IsReady, wrote |-> FALSE, readyAtWrite |-> FALSE]
      /\ History(c)
      /\ UNCHANGED <<now, elapsed, clientConnected, clientAvailable>>
      /\ UNCHANGED bufVars
      /\ UNCHANGED helperVars

IsReadyCall ==
  /\ connCall' = [op |-> "isReady", result |-> IsReady]
  /\ UNCHANGED <<isConnected, lastConnectionAttempt, connectionTimeout, now, elapsed,
                 clientConnected, clientAvailable, lastAttachAt, attachGap, sinceConnect>>
  /\ UNCHANGED bufVars
  /\ UNCHANGED helperVars

\* if (isConnected) { client.stop(); isConnected = false; }
\* a disconnect() that releases the transport whatever the state
ReleasesAlways == TRUE

\* if (isConnected) { client.stop(); isConnected = false; }
Releases == isConnected

\* again: the call before this one was a disconnect() too
Disconnect ==
  /\ isConnected' = FALSE
  /\ clientConnected' = IF Releases THEN FALSE ELSE clientConnected
  /\ clientAvailable' = IF Releases THEN 0 ELSE clientAvailable
  /\ connCall' = [op |-> "disconnect", stopped |-> Releases,
                  again |-> connCall.op = "disconnect"]
  /\ UNCHANGED <<lastConnectionAttempt, connectionTimeout, now, elapsed,
                 lastAttachAt, attachGap, sinceConnect>>
  /\ UNCHANGED bufVars
  /\ UNCHANGED helperVars

\* if (!isReady()) { if (!connect()) return false; }
\* if (client.connect(THINGSPEAK_SERVER, THINGSPEAK_PORT)) { ...print request...; return true; }
\* return false;
SendDataStep(url, method, gsmReady, gprsReady, opened) ==
    LET callsConnect == ~IsReady
        c == ConnectOutcome(gsmReady, gprsReady)
        proceeds == IsReady \/ c.result
        connectedAfter == IF callsConnect THEN c.isConnected ELSE isConnected
        timeoutAfter == IF callsConnect THEN c.connectionTimeout ELSE connectionTimeout
    IN
      /\ isConnected' = connectedAfter
      /\ lastConnectionAttempt' =
           IF callsConnect THEN c.lastConnectionAttempt ELSE lastConnectionAttempt
      /\ connectionTimeout' = timeoutAfter
      /\ IF proceeds
           THEN /\ clientConnected' = opened
                /\ clientAvailable' = 0
           ELSE UNCHANGED <<clientConnected, clientAvailable>>
      /\ connCall' = [op |-> "sendData", result |-> proceeds /\ opened,
                      connectCalled |-> callsConnect,
                      connectResult |-> callsConnect /\ c.result,
                      attached |-> callsConnect /\ c.attached,
                      bearer |-> callsConnect /\ c.bearer,
                      gsm |-> Answer(callsConnect /\ c.attached, gsmReady),
                      gprs |-> Answer(callsConnect /\ c.bearer, gprsReady),
                      url |-> url, method |-> method,
                      opened |-> Answer(proceeds, opened),
                      request |-> IF proceeds /\ opened
                                    THEN RequestWritten(url, method) ELSE <<>>,
                      since |-> sinceConnect, sinceAttach |-> SinceAttach,
                      wasConnected |-> isConnected,
                      wasReady |-> IsReady, wrote |-> proceeds /\ opened,
                      readyAtWrite |-> proceeds /\ opened /\ connectedAfter
                                       /\ now < timeoutAfter]
      /\ IF callsConnect
           THEN History(c)
           ELSE UNCHANGED <<lastAttachAt, attachGap, sinceConnect>>
      /\ UNCHANGED <<now, elapsed>>
      /\ UNCHANGED bufVars

SendData ==
  \E url \in Urls, method \in Methods, gsmReady, gprsReady, opened \in BOOLEAN :
    /\ SendDataStep(url, method, gsmReady, gprsReady, opened)
    /\ UNCHANGED helperVars

\* if (client.available()) { char c = client.read(); Serial.print(c); }
\* if (!client.available() && !client.connected()) { client.stop(); }
\* a handleResponse() that releases the transport as soon as the server has closed
StopsWhenClosed(left) == ~clientConnected

\* if (!client.available() && !client.connected()) client.stop();
Stops(left) == left = 0 /\ ~clientConnected

\* client.stop() drops whatever the transport still holds
HandleResponseStep ==
  LET reads == clientAvailable > 0
      left == IF reads THEN clientAvailable - 1 ELSE clientAvailable
      stops == Stops(left)
  IN
    /\ clientAvailable' = IF stops THEN 0 ELSE left
    /\ clientConnected' = IF stops THEN FALSE ELSE clientConnected
    /\ connCall' = [op |-> "handleResponse", read |-> reads, stopped |-> stops]
    /\ UNCHANGED <<isConnected, lastConnectionAttempt, connectionTimeout, now, elapsed,
                   lastAttachAt, attachGap, sinceConnect>>
    /\ UNCHANGED bufVars

HandleResponse ==
  /\ HandleResponseStep
  /\ UNCHANGED helperVars

\* millis() advances between two calls
TickBy(d) ==
    /\ elapsed' = elapsed + d
    /\ now' = Add32(now, d)
    /\ sinceConnect' = IF sinceConnect = -1 THEN -1
                       ELSE Min(sinceConnect + d, MinRetryInterval)
    /\ connCall' = NoConnCall
    /\ UNCHANGED <<isConnected, lastConnectionAttempt, connectionTimeout,
                   clientConnected, clientAvailable, lastAttachAt, attachGap>>
    /\ UNCHANGED bufVars
    /\ UNCHANGED helperVars

Tick ==
  \E d \in TickSteps :
    /\ elapsed + d <= MaxElapsed
    /\ TickBy(d)

\* the server sends a response byte
ServerSends ==
  /\ clientConnected
  /\ clientAvailable < MaxAvailable
  /\ clientAvailable' = clientAvailable + 1
  /\ connCall' = NoConnCall
  /\ UNCHANGED <<isConnected, lastConnectionAttempt, connectionTimeout, now, elapsed,
                 clientConnected, lastAttachAt, attachGap, sinceConnect>>
  /\ UNCHANGED bufVars
  /\ UNCHANGED helperVars

\* the server closes the connection ("Connection: close")
ServerCloses ==
  /\ clientConnected
  /\ clientConnected' = FALSE
  /\ connCall' = NoConnCall
  /\ UNCHANGED <<isConnected, lastConnectionAttempt, connectionTimeout, now, elapsed,
                 clientAvailable, lastAttachAt, attachGap, sinceConnect>>
  /\ UNCHANGED bufVars
  /\ UNCHANGED helperVars

\* ---- NonBlockingDelay ----
\* a delay that compares the clock reading with startTime + duration
IsCompleteAbsolute(startTime, duration) == now >= startTime + duration

\* a delay that is complete only after its duration has been exceeded
IsCompleteLate(startTime, duration) == Sub32(now, startTime) > duration

\* NonBlockingDelay::isComplete(): millis() - startTime >= duration
IsComplete(startTime, duration) == Sub32(now, startTime) >= duration

Durations == {0, 2000, 5000}
\* the clock advances by a second, by five, or by most of its period
DelaySteps == {1000, 5000, ClockModulus - 4000}

\* startedAt: the true time of the construction or the latest reset;
\* steps: how often the clock has advanced
\* seen: isComplete() has returned true since the construction or the latest
\* reset; seenBefore: it had before the call that just returned
NoDelay == [made |-> FALSE, startTime |-> 0, duration |-> 0, startedAt |-> 0,
            steps |-> 0, op |-> "none", ms |-> 0, result |-> FALSE,
            seen |-> FALSE, seenBefore |-> FALSE]

\* NonBlockingDelay(unsigned long ms) : duration(ms) { startTime = millis(); }
DelayConstruct ==
  \E ms \in Durations :
    /\ ~delay.made
    /\ delay' = [delay EXCEPT !.made = TRUE, !.startTime = now, !.duration = ms,
                              !.startedAt = elapsed, !.op = "construct", !.ms = ms]
    /\ UNCHANGED bufVars
    /\ UNCHANGED connVars
    /\ UNCHANGED <<upload, wait, serial>>

DelayIsComplete ==
  /\ delay.made
  /\ delay' = [delay EXCEPT !.op = "isComplete",
                            !.result = IsComplete(delay.startTime, delay.duration),
                            !.seen = @ \/ IsComplete(delay.startTime, delay.duration),
                            !.seenBefore = delay.seen]
  /\ UNCHANGED bufVars
  /\ UNCHANGED connVars
  /\ UNCHANGED <<upload, wait, serial>>

\* startTime = millis(); if (ms > 0) duration = ms;
DelayReset ==
  \E ms \in Durations :
    /\ delay.made
    /\ delay' = [delay EXCEPT !.startTime = now,
                              !.duration = IF ms > 0 THEN ms ELSE delay.duration,
                              !.startedAt = elapsed, !.op = "reset", !.ms = ms,
                              !.seen = FALSE, !.seenBefore = FALSE]
    /\ UNCHANGED bufVars
    /\ UNCHANGED connVars
    /\ UNCHANGED <<upload, wait, serial>>

\* millis() advances while the delay runs
DelayTick ==
  \E d \in DelaySteps :
    /\ delay.steps < MaxDelaySteps
    /\ elapsed <= ClockModulus + 10000 - d
    /\ elapsed' = elapsed + d
    /\ now' = Add32(now, d)
    /\ delay' = [delay EXCEPT !.steps = @ + 1, !.op = "none"]
    /\ UNCHANGED <<isConnected, lastConnectionAttempt, connectionTimeout,
                   clientConnected, clientAvailable, connCall,
                   lastAttachAt, attachGap, sinceConnect>>
    /\ UNCHANGED bufVars
    /\ UNCHANGED <<upload, wait, serial>>

InitDelay == delay = NoDelay

NextDelay ==
  \/ DelayConstruct
  \/ DelayIsComplete
  \/ DelayReset
  \/ DelayTick

\* ---- sendToThingSpeak(data, field) ----
\* the url snprintf builds from WRITE_API_KEY, field and data
UploadUrl == "/update?api_key=POWWNFLAIARHZL10&field1=7"

UploadIdle == [pc |-> "idle", start |-> 0, returned |-> FALSE, result |-> FALSE]

\* GSMConnection gsm;  a local object: the constructor runs on every call,
\* with a client of its own that is not connected and holds no bytes
UploadConstruct ==
  /\ upload.pc = "idle"
  /\ isConnected' = FALSE
  /\ lastConnectionAttempt' = 0
  /\ connectionTimeout' = 0
  /\ clientConnected' = FALSE
  /\ clientAvailable' = 0
  /\ connCall' = NoConnCall
  /\ upload' = [pc |-> "constructed", start |-> 0, returned |-> FALSE, result |-> FALSE]
  /\ UNCHANGED <<now, elapsed, lastAttachAt, attachGap, sinceConnect>>
  /\ UNCHANGED bufVars
  /\ UNCHANGED <<wait, serial, delay>>

\* if (gsm.sendData(url, "GET")) { NonBlockingDelay responseDelay(5000); ... }
\* return false;
UploadSend ==
  /\ upload.pc = "constructed"
  /\ \E gsmReady, gprsReady, opened \in BOOLEAN :
       SendDataStep(UploadUrl, "GET", gsmReady, gprsReady, opened)
  /\ upload' = IF connCall'.result
                 THEN [pc |-> "waiting", start |-> now, returned |-> FALSE, result |-> FALSE]
                 ELSE [pc |-> "idle", start |-> 0, returned |-> TRUE, result |-> FALSE]
  /\ UNCHANGED <<wait, serial, delay>>

\* one turn of: while (!responseDelay.isComplete()) {
\*                gsm.handleResponse(); if (!gsm.isReady()) break; }  return true;
UploadPoll ==
  /\ upload.pc = "waiting"
  /\ IF IsComplete(upload.start, ResponseWait)
       THEN /\ upload' = [pc |-> "idle", start |-> 0, returned |-> TRUE, result |-> TRUE]
            /\ connCall' = NoConnCall
            /\ UNCHANGED <<isConnected, lastConnectionAttempt, connectionTimeout,
                           now, elapsed, clientConnected, clientAvailable,
                           lastAttachAt, attachGap, sinceConnect>>
            /\ UNCHANGED bufVars
       ELSE /\ HandleResponseStep
            /\ upload' = IF IsReady
                           THEN upload
                           ELSE [pc |-> "idle", start |-> 0, returned |-> TRUE,
                                 result |-> TRUE]
  /\ UNCHANGED <<wait, serial, delay>>

InitUpload == upload = UploadIdle

NextUpload ==
  \/ UploadConstruct
  \/ UploadSend
  \/ UploadPoll
  \/ Tick
  \/ ServerSends
  \/ ServerCloses

\* ---- waitForResponse, sendATCommand ----
SerialBytes == {"O", "K"}
\* expected is a non-empty string ("OK" by default): indexOf is looked at only
\* after a byte has been read
ExpectedStrings == {<<"K">>, <<"O", "K">>}
Timeouts == {0, 2000, COMMAND_TIMEOUT}
Commands == {"AT"}

\* response.indexOf(expected) >= 0
Contains(response, expected) ==
  \E i \in 1..(Len(response) - Len(expected) + 1) :
    SubSeq(response, i, i + Len(expected) - 1) = expected

\* startedAt: the time of the call; lapse: the time from the call to its return
WaitIdle == [pc |-> "idle", start |-> 0, startedAt |-> 0, timeout |-> 0,
             expected |-> <<>>, response |-> <<>>, result |-> FALSE, lapse |-> -1,
             command |-> "none", txBefore |-> <<>>]

\* NonBlockingDelay delay(timeout); String response = "";
\* (a call is started only if the clock of the model can run past its timeout)
WaitEnter(expected, timeout, command) ==
  /\ wait.pc \in {"idle", "done"}
  /\ elapsed + timeout + 1000 <= MaxWaitClock
  /\ wait' = [pc |-> "loop", start |-> now, startedAt |-> elapsed, timeout |-> timeout,
              expected |-> expected, response |-> <<>>, result |-> FALSE, lapse |-> -1,
              command |-> command, txBefore |-> serial.tx]
  /\ UNCHANGED bufVars
  /\ UNCHANGED connVars
  /\ UNCHANGED <<upload, delay>>

WaitForResponse ==
  \E expected \in ExpectedStrings, timeout \in Timeouts :
    /\ WaitEnter(expected, timeout, "none")
    /\ UNCHANGED serial

\* serial.println(command); return waitForResponse(serial, expected, timeout);
SendATCommand ==
  \E command \in Commands, expected \in ExpectedStrings, timeout \in Timeouts :
    /\ Len(serial.tx) < MaxCommands
    /\ WaitEnter(expected, timeout, command)
    /\ serial' = [serial EXCEPT !.tx = Append(@, command)]

\* one turn of: while (!delay.isComplete()) { if (serial.available()) { ... } }
\* return false;
WaitLoop ==
  /\ wait.pc = "loop"
  /\ IF IsComplete(wait.start, wait.timeout)
       THEN /\ wait' = [wait EXCEPT !.pc = "done", !.result = FALSE,
                                    !.lapse = elapsed - wait.startedAt]
            /\ UNCHANGED serial
       ELSE IF Len(serial.rx) > 0
         THEN LET r == Append(wait.response, Head(serial.rx)) IN
                /\ serial' = [serial EXCEPT !.rx = Tail(@)]
                /\ wait' = IF Contains(r, wait.expected)
                             THEN [wait EXCEPT !.pc = "done", !.result = TRUE,
                                               !.response = r,
                                               !.lapse = elapsed - wait.startedAt]
                             ELSE [wait EXCEPT !.response = r]
         ELSE UNCHANGED <<wait, serial>>
  /\ UNCHANGED bufVars
  /\ UNCHANGED connVars
  /\ UNCHANGED <<upload, delay>>

\* the GSM module sends a byte
ModuleSends ==
  \E c \in SerialBytes :
    /\ Len(serial.rx) + Len(wait.response) < MaxBytes
    /\ serial' = [serial EXCEPT !.rx = Append(@, c)]
    /\ UNCHANGED wait
    /\ UNCHANGED bufVars
    /\ UNCHANGED connVars
    /\ UNCHANGED <<upload, delay>>

\* millis() advances while waitForResponse is called and runs
WaitTick ==
  \E d \in TickSteps :
    /\ elapsed + d <= MaxWaitClock
    /\ TickBy(d)

InitWait ==
  /\ wait = WaitIdle
  /\ serial = [rx |-> <<>>, tx |-> <<>>]

NextWait ==
  \/ WaitForResponse
  \/ SendATCommand
  \/ WaitLoop
  \/ ModuleSends
  \/ WaitTick


\* GSMConnection() : isConnected(false), lastConnectionAttempt(0), connectionTimeout(0)
InitConnFrom(starts) ==
  /\ isConnected = FALSE
  /\ lastConnectionAttempt = 0
  /\ connectionTimeout = 0
  /\ now \in starts
  /\ elapsed = 0
  /\ clientConnected = FALSE
  /\ clientAvailable = 0
  /\ connCall = NoConnCall
  /\ lastAttachAt = -1
  /\ attachGap = -1
  /\ sinceConnect = -1

NextConn ==
  \/ Connect
  \/ IsReadyCall
  \/ Disconnect
  \/ SendData
  \/ HandleResponse
  \/ Tick
  \/ ServerSends
  \/ ServerCloses

----------------------------------------------------------------------------
InitConn == InitConnFrom(ClockStarts)

Init == InitBuffer /\ InitConn /\ InitUpload /\ InitWait /\ InitDelay

\* the same, millis() being anywhere in WrapStarts at the start
InitWrap == InitBuffer /\ InitConnFrom(WrapStarts) /\ InitUpload /\ InitWait /\ InitDelay

Next == NextBuffer \/ NextConn \/ NextUpload \/ NextWait \/ NextDelay

Spec == Init /\ [][Next]_vars

\* the SensorBuffer alone
SpecBuffer == Init /\ [][NextBuffer]_vars

\* the GSMConnection alone
SpecConn == Init /\ [][NextConn]_vars

\* waitForResponse and sendATCommand on a serial line, the clock advancing and
\* the loop of waitForResponse running on
SpecWait == Init /\ [][NextWait]_vars /\ WF_vars(WaitTick) /\ WF_vars(WaitLoop)

\* a NonBlockingDelay polled and reset while the clock advances and wraps
SpecDelay == InitWrap /\ [][NextDelay]_vars

\* connect(), isReady() and disconnect() with the clock starting anywhere in
\* WrapStarts
NextReady ==
  \/ Connect
  \/ IsReadyCall
  \/ Disconnect
  \/ Tick

SpecReady == InitWrap /\ [][NextReady]_vars

\* the driving loop calling sendToThingSpeak again and again
SpecUpload == Init /\ [][NextUpload]_vars

----------------------------------------------------------------------------
(* Reading a serialized text back: space-separated decimal numbers *)

DigitValue(c) == CHOOSE d \in 0..9 : DigitChars[d + 1] = c

RECURSIVE Decode(_, _, _, _, _)
Decode(text, i, negative, acc, some) ==
  LET done == IF some THEN <<IF negative THEN -acc ELSE acc>> ELSE <<>> IN
    IF i > Len(text) THEN done
    ELSE IF text[i] = " " THEN done \o Decode(text, i + 1, FALSE, 0, FALSE)
    ELSE IF text[i] = "-" THEN Decode(text, i + 1, TRUE, 0, FALSE)
    ELSE Decode(text, i + 1, negative, acc * 10 + DigitValue(text[i]), TRUE)

DecodeText(text) == Decode(text, 1, FALSE, 0, FALSE)

\* the samples read back from rows 0..count-1, in chunk order
RECURSIVE DecodeChunks(_, _)
DecodeChunks(rows, count) ==
  IF count = 0 THEN <<>>
  ELSE DecodeChunks(rows, count - 1) \o DecodeText(rows[count - 1].text)

StoredSamples == [i \in 1..sampleCount |-> samples[i - 1]]

\* the request of the claims, line by line
RequestExpected(url, method) ==
  <<method, " ", url, " HTTP/1.1", "\n", "Host: ", "api.thingspeak.com", "\n",
    "Connection: close", "\n", "\n">>

ConnectWasCalled == connCall.op \in {"connect", "sendData"} /\ connCall.connectCalled

----------------------------------------------------------------------------
(* Claims *)

C2_ChunksReproduceSamples ==
  (bufCall.op = "getDataAsChunks" /\ bufCall.maxChunks >= 1) =>
    /\ bufCall.chunkCount <= bufCall.maxChunks
    /\ DecodeChunks(bufCall.chunks, bufCall.chunkCount) = StoredSamples

\* C3 (as stated): a connect() call made less than MinRetryInterval after the
\* previous connect() call performs no attach and returns false.
C3_SecondCallRefused ==
  (ConnectWasCalled /\ connCall.since # -1 /\ connCall.since < MinRetryInterval) =>
    (~connCall.attached /\ connCall.connectResult = FALSE)

\* C3 (amended): a connect() call made less than MinRetryInterval after an attach
\* attempt performs no attach; it returns true when the manager is Connected at
\* the call and false otherwise.
C3_NoAttachWithinInterval ==
  (ConnectWasCalled /\ connCall.sinceAttach # -1
     /\ connCall.sinceAttach < MinRetryInterval) =>
    (~connCall.attached /\ connCall.connectResult = connCall.wasConnected)

C3_Witness ==
  /\ connCall.op = "connect"
  /\ connCall.sinceAttach # -1 /\ connCall.sinceAttach < MinRetryInterval
  /\ connCall.since > 0
  /\ ~connCall.wasConnected
  /\ connCall.result = FALSE

\* C4: once Connected and past the deadline, the next connect() or sendData() made
\* after the rate-limit window attaches again and sets the deadline to
\* now + CONNECTION_TIMEOUT.
C4_FreshCycleAfterDeadline ==
  (ConnectWasCalled /\ connCall.wasConnected /\ ~connCall.wasReady
     /\ connCall.sinceAttach >= MinRetryInterval) =>
    (connCall.attached /\ connectionTimeout = Add32(now, CONNECTION_TIMEOUT))

\* C5: whenever sendData writes a request, isReady() holds at that moment.
C5_SendOnlyWhenReady ==
  (connCall.op = "sendData" /\ connCall.wrote) => connCall.readyAtWrite

\* C6: isReady() returns false whenever now >= connectionTimeout, and whenever the
\* manager is not Connected.
C6_NotReadyPastDeadline ==
  connCall.op = "isReady" =>
    /\ now >= connectionTimeout => connCall.result = FALSE
    /\ ~isConnected => connCall.result = FALSE

C6_Witness ==
  /\ connCall.op = "isReady"
  /\ isConnected
  /\ now >= connectionTimeout
  /\ connCall.result = FALSE

\* C7: getDataAsString stores at most maxLength - 1 characters and writes its
\* terminator at an index in 0..maxLength-1.
C7_StringFits ==
  (bufCall.op = "getDataAsString" /\ bufCall.maxLength >= 1) =>
    /\ Len(bufCall.text) <= bufCall.maxLength - 1
    /\ bufCall.term \in 0..(bufCall.maxLength - 1)

\* C8: every chunk getDataAsChunks emits fits its 200-byte row: the text and its
\* terminator, and the terminator index, stay within 0..199.
C8_ChunkFits ==
  bufCall.op = "getDataAsChunks" =>
    \A c \in 0..(bufCall.maxChunks - 1) :
      bufCall.chunks[c].emitted =>
        /\ Len(bufCall.chunks[c].text) + 1 <= ChunkRowBytes
        /\ bufCall.chunks[c].pos <= ChunkRowBytes - 1

\* C9: any two consecutive attach attempts are at least MinRetryInterval apart.
C9_AttachesSpaced == attachGap = -1 \/ attachGap >= MinRetryInterval

C9_Witness ==
  /\ ConnectWasCalled
  /\ connCall.attached
  /\ connCall.sinceAttach = MinRetryInterval
  /\ attachGap = MinRetryInterval

\* C10: a Disconnected manager's connect() attempts attach exactly when no attempt
\* was made in the preceding MinRetryInterval, also when none was ever made
\* (connect() at t = 0 on a fresh manager attaches).
C10_AttachIffNoRecentAttempt ==
  (connCall.op = "connect" /\ ~connCall.wasConnected) =>
    (connCall.attached <=>
       (connCall.sinceAttach = -1 \/ connCall.sinceAttach >= MinRetryInterval))

\* C11 (as stated): when sendData is invoked on a Disconnected manager and the
\* network and bearer attach succeed, the manager ends Connected, sendData returns
\* true and exactly the request "<method> <url> HTTP/1.1", Host, Connection: close
\* is written; and sendData returns true only if client.connect succeeded and the
\* request was written.
C11_SendAfterAttachSucceeds ==
  connCall.op = "sendData" =>
    /\ (~connCall.wasConnected /\ connCall.gsm = "ready" /\ connCall.gprs = "ready") =>
         /\ isConnected
         /\ connCall.result = TRUE
         /\ connCall.request = RequestExpected(connCall.url, connCall.method)
    /\ connCall.result = TRUE =>
         /\ connCall.opened = "ready"
         /\ connCall.request = RequestExpected(connCall.url, connCall.method)

\* C11 (amended): when sendData is invoked on a Disconnected manager and the
\* network and bearer attach succeed, the manager ends Connected; sendData then
\* returns true and writes exactly that one request if client.connect succeeds,
\* and returns false and writes nothing if client.connect fails. sendData
\* returns true only if client.connect succeeded and the request was written.
C11_SendAfterAttach ==
  connCall.op = "sendData" =>
    /\ (~connCall.wasConnected /\ connCall.gsm = "ready" /\ connCall.gprs = "ready") =>
         /\ isConnected
         /\ connCall.opened # "none"
         /\ connCall.result = (connCall.opened = "ready")
         /\ connCall.request = IF connCall.opened = "ready"
                                 THEN RequestExpected(connCall.url, connCall.method)
                                 ELSE <<>>
    /\ connCall.result = TRUE =>
         /\ connCall.opened = "ready"
         /\ connCall.request = RequestExpected(connCall.url, connCall.method)

C11_Witness ==
  /\ connCall.op = "sendData"
  /\ ~connCall.wasConnected
  /\ connCall.gsm = "ready" /\ connCall.gprs = "ready"
  /\ connCall.result = TRUE
  /\ isConnected
  /\ Len(connCall.request) > 0

\* C12: when the sample count n > 0 is a multiple of maxChunks = k, getDataAsChunks
\* yields exactly k chunks and chunk j holds exactly the samples with indices
\* j*(n/k) .. (j+1)*(n/k)-1.
C12_EvenChunksHoldEqualShares ==
  (bufCall.op = "getDataAsChunks" /\ bufCall.maxChunks >= 1
     /\ sampleCount > 0 /\ sampleCount % bufCall.maxChunks = 0) =>
    LET share == sampleCount \div bufCall.maxChunks IN
      /\ bufCall.chunkCount = bufCall.maxChunks
      /\ \A j \in 0..(bufCall.maxChunks - 1) :
           DecodeText(bufCall.chunks[j].text) =
             [i \in 1..share |-> samples[j * share + i - 1]]


\* C13: over any sequence of sendToThingSpeak calls, an attach attempt made
\* by an upload follows the previous attach attempt by at least
\* MinRetryInterval milliseconds.
C13_UploadAttachesSpaced ==
  (connCall.op = "sendData" /\ connCall.attached /\ connCall.sinceAttach # -1) =>
    connCall.sinceAttach >= MinRetryInterval


\* the fields of the manager and its transport
ManagerState == <<isConnected, lastConnectionAttempt, connectionTimeout,
                  clientConnected, clientAvailable>>

\* C14: a connect() called while the manager is connected returns true, a
\* connect() called less than MinRetryInterval after the previous attach
\* attempt returns false, and in both cases the connection state,
\* lastConnectionAttempt, connectionTimeout and the transport are as before
\* and no attach is invoked.
C14_EarlyReturnsChangeNothing ==
  [][connCall'.op = "connect" =>
       /\ isConnected =>
            /\ connCall'.result
            /\ ~connCall'.attached /\ ~connCall'.bearer
            /\ ManagerState' = ManagerState
       /\ (~isConnected /\ lastAttachAt # -1
             /\ elapsed - lastAttachAt < MinRetryInterval) =>
            /\ ~connCall'.result
            /\ ~connCall'.attached /\ ~connCall'.bearer
            /\ ManagerState' = ManagerState]_vars

\* a connect() refused 1000..4000 ms after a failed attach, the deadline of
\* that attempt still standing
C14_Witness ==
  /\ connCall.op = "connect" /\ ~connCall.result /\ ~connCall.attached
  /\ ~connCall.wasConnected
  /\ connCall.sinceAttach > 0 /\ connCall.sinceAttach < MinRetryInterval
  /\ lastConnectionAttempt > 0
  /\ connectionTimeout = Add32(lastConnectionAttempt, CONNECTION_TIMEOUT)


\* C15: after disconnect() the manager is disconnected and isReady() is
\* false, and a disconnect() of a disconnected manager (a second disconnect()
\* in particular) changes no field and does not release the transport again.
C15_DisconnectIdempotent ==
  [][connCall'.op = "disconnect" =>
       /\ ~isConnected' /\ ~IsReady'
       /\ (~isConnected \/ connCall.op = "disconnect") =>
            /\ ~connCall'.stopped
            /\ ManagerState' = ManagerState]_vars

\* a second disconnect(), right after the first, of a manager that has attached
C15_Witness ==
  /\ connCall.op = "disconnect" /\ connCall.again /\ ~connCall.stopped
  /\ ~isConnected /\ lastAttachAt # -1


\* C16: after clear() getSampleCount() is 0, isFull() is false and every slot
\* is zero, whatever the buffer held; the addSample that follows is accepted
\* and stored at slot 0, the other slots staying zero.
C16_ClearEmptiesBuffer ==
  [][/\ bufCall'.op = "clear" =>
          (GetSampleCount' = 0 /\ ~IsFull' /\ samples' = ZeroSamples)
     /\ (bufCall.op = "clear" /\ bufCall'.op = "addSample") =>
          /\ GetSampleCount' = 1
          /\ samples' = [ZeroSamples EXCEPT ![0] = bufCall'.value]]_vars

\* a sample accepted at slot 0 right after a full buffer was cleared
C16_Witness ==
  /\ bufCall.op = "addSample" /\ bufCall.clearedFrom = MAX_SAMPLES
  /\ bufCall.value # 0 /\ samples[0] = bufCall.value /\ sampleCount = 1


\* C17: getDataAsString and getDataAsChunks return normally, without an
\* undefined step (a division by zero, a write outside the destination),
\* for every argument value, maxChunks = 0 or negative and maxLength <= 0
\* included.
C17_OperationsTotal ==
  bufCall.op \in {"getDataAsString", "getDataAsChunks"} =>
    (bufCall.undefined = "none" /\ bufCall.returned)


\* C18: a connect() that passes the rate limit calls the network attach once
\* and the bearer attach only if the network attach succeeded; it returns
\* true and is connected exactly when both succeeded, is disconnected and
\* returns false otherwise, and has set lastConnectionAttempt to now and
\* connectionTimeout to now + CONNECTION_TIMEOUT.
C18_AttachOutcome ==
  (connCall.op = "connect" /\ connCall.attached) =>
    /\ connCall.gsm \in {"ready", "failed"}
    /\ (connCall.gprs # "none") <=> (connCall.gsm = "ready")
    /\ connCall.bearer <=> (connCall.gprs # "none")
    /\ connCall.result <=> (connCall.gsm = "ready" /\ connCall.gprs = "ready")
    /\ isConnected <=> connCall.result
    /\ lastConnectionAttempt = now
    /\ connectionTimeout = now + CONNECTION_TIMEOUT

\* the network attach succeeded and the bearer attach failed
C18_Witness ==
  /\ connCall.op = "connect" /\ connCall.attached
  /\ connCall.gsm = "ready" /\ connCall.gprs = "failed"
  /\ ~connCall.result /\ ~isConnected /\ now >= MinRetryInterval


\* C20: a handleResponse() call reads one byte if the transport holds any and
\* none otherwise, releases the transport only if no byte is left after that
\* and the transport reports disconnected, so that it drops no unread byte,
\* and leaves isConnected, lastConnectionAttempt and connectionTimeout as
\* they were.
C20_HandleResponseReadsOne ==
  [][connCall'.op = "handleResponse" =>
       LET taken == IF connCall'.read THEN 1 ELSE 0 IN
         /\ connCall'.read <=> (clientAvailable > 0)
         /\ clientAvailable' = clientAvailable - taken
         /\ connCall'.stopped => (clientAvailable - taken = 0 /\ ~clientConnected)
         /\ ~connCall'.stopped => clientConnected' = clientConnected
         /\ <<isConnected, lastConnectionAttempt, connectionTimeout>>' =
              <<isConnected, lastConnectionAttempt, connectionTimeout>>]_vars

\* the server has closed with two bytes unread: one is read, the other is
\* kept and the transport is not released
C20_Witness ==
  /\ connCall.op = "handleResponse" /\ connCall.read /\ ~connCall.stopped
  /\ clientAvailable = 1 /\ ~clientConnected


\* what waitForResponse has returned, or holds while it loops
WaitResultRight ==
  /\ wait.pc = "loop" => ~Contains(wait.response, wait.expected)
  /\ (wait.pc = "done" /\ wait.result) =>
       /\ Contains(wait.response, wait.expected)
       /\ ~Contains(SubSeq(wait.response, 1, Len(wait.response) - 1), wait.expected)
       /\ wait.lapse < wait.timeout
  /\ (wait.pc = "done" /\ ~wait.result) =>
       /\ ~Contains(wait.response, wait.expected)
       /\ wait.lapse >= wait.timeout
  /\ serial.tx = IF wait.command = "none" THEN wait.txBefore
                 ELSE Append(wait.txBefore, wait.command)

\* a turn of the loop taken once the timeout has elapsed reads no byte and
\* ends the call with false
NoTurnPastTimeout ==
  (wait.pc = "loop" /\ elapsed - wait.startedAt >= wait.timeout /\ wait' # wait) =>
    (wait'.pc = "done" /\ ~wait'.result /\ serial' = serial)

SinceStart == elapsed - delay.startedAt

\* isComplete() tells whether the duration has passed, within one period of the clock
CompleteAsElapsed ==
  (delay.op = "isComplete" /\ SinceStart < ClockModulus) =>
    /\ delay.result <=> (SinceStart >= delay.duration)
    /\ delay.seenBefore => delay.result

\* reset(ms) restarts the interval at the current time, with ms for its
\* duration unless ms is 0
ResetRestarts ==
  delay'.op = "reset" =>
    /\ delay'.startTime = now /\ delay'.startedAt = elapsed
    /\ delay'.duration = IF delay'.ms = 0 THEN delay.duration ELSE delay'.ms

\* C21: isComplete() of a NonBlockingDelay equals (true time since start >=
\* duration) while that time is less than one period of the millisecond
\* clock, the clock wrapping between start and query included; once true it
\* stays true until reset; reset(ms) restarts the interval from now, keeping
\* the duration when ms is 0 and adopting ms otherwise.
C21_DelayFollowsElapsed ==
  /\ []CompleteAsElapsed
  /\ [][ResetRestarts]_vars

\* a delay started shortly before the wrap and found complete after it, a
\* second time
C21_Witness ==
  /\ delay.op = "isComplete" /\ delay.result /\ delay.seenBefore
  /\ now < delay.startTime /\ delay.startedAt > 0
  /\ SinceStart >= delay.duration /\ SinceStart < ClockModulus /\ delay.duration > 0


\* C22: while the manager is connected (no disconnect() since the attach
\* that succeeded) and less than CONNECTION_TIMEOUT has passed since that
\* attach, isReady() is true, also when the deadline lies beyond the wrap of
\* the millisecond clock.
C22_ReadyUntilDeadline ==
  (connCall.op = "isReady" /\ isConnected /\ lastAttachAt # -1
     /\ elapsed - lastAttachAt < CONNECTION_TIMEOUT) =>
    connCall.result


====
